---- MODULE Spec2Model ----
(***************************************************************************)
(* Model of the text-to-speech reader/recorder component                   *)
(* (src/unnamed/part_000, lines 1-361: the <script setup> block of the     *)
(* most complete revision).                                                *)
(*                                                                         *)
(* Strings the code inspects character by character (voice names, language *)
(* tags, the user agent, text lines) are sequences of one-character        *)
(* strings, so startsWith / includes / toLowerCase / trim / replace are    *)
(* computed, not assumed.  Strings the code only compares for equality or  *)
(* truthiness (voiceURI, errorMessage) are TLA+ strings.                   *)
(***************************************************************************)
EXTENDS Integers, Sequences, FiniteSets, TLC

(***************************************************************************)
(* Bounds of the model.                                                    *)
(***************************************************************************)
\* number of dispatch invocations (clicks on either button) in one run
MaxDispatch == 2
\* longest host voice list enumerated by the catalog specification
MaxHostLen == 2
\* number of sample blocks the recorder takes before it is stopped
MaxBlocks == 2
\* longest host voice list given to the catalog builder on its own
MaxBuildLen == 3
\* number of sample blocks a recorder takes in the dispatch specification
MaxTapBlocks == 1

(***************************************************************************)
(* JavaScript values.                                                      *)
(***************************************************************************)
Null == "<null>"
Undefined == "<undefined>"
\* currentLineIndex = null (the code's indices are 0-based naturals)
NoLine == -1

\* JS truthiness of a string-or-nullish value (the operand of ||)
Truthy(x) == x \notin {Null, Undefined, ""}

\* a || b
OrElse(a, b) == IF Truthy(a) THEN a ELSE b

(***************************************************************************)
(* String primitives over sequences of characters.                         *)
(***************************************************************************)
UpperCase == <<"A","B","C","D","E","F","G","H","I","J","K","L","M",
               "N","O","P","Q","R","S","T","U","V","W","X","Y","Z">>
LowerCase == <<"a","b","c","d","e","f","g","h","i","j","k","l","m",
               "n","o","p","q","r","s","t","u","v","w","x","y","z">>

LowerChar(c) ==
  IF \E k \in 1..Len(UpperCase) : UpperCase[k] = c
  THEN LowerCase[CHOOSE k \in 1..Len(UpperCase) : UpperCase[k] = c]
  ELSE c

\* String.prototype.toLowerCase
ToLowerCase(s) == [k \in 1..Len(s) |-> LowerChar(s[k])]

\* String.prototype.startsWith
StartsWith(s, p) == Len(s) >= Len(p) /\ SubSeq(s, 1, Len(p)) = p

\* String.prototype.includes
Includes(s, sub) ==
  \E k \in 0..(Len(s) - Len(sub)) : SubSeq(s, k + 1, k + Len(sub)) = sub

\* the characters \s matches and trim() removes, among those the model uses
WhiteSpace == {" ", "\t"}

\* line.trim() !== ''
IsBlank(s) == \A k \in 1..Len(s) : s[k] \in WhiteSpace

\* s with its leading white space removed (the \s* of the prefix patterns)
RECURSIVE DropLeadingSpace(_)
DropLeadingSpace(s) ==
  IF s # <<>> /\ Head(s) \in WhiteSpace THEN DropLeadingSpace(Tail(s)) ELSE s

(***************************************************************************)
(* Array helpers.                                                          *)
(***************************************************************************)
\* index of the first element satisfying P, 0 when there is none
FirstIndex(seq, P(_)) ==
  IF \E k \in 1..Len(seq) : P(seq[k])
  THEN CHOOSE k \in 1..Len(seq) :
         P(seq[k]) /\ \A j \in 1..(k - 1) : ~P(seq[j])
  ELSE 0

\* arr.find(P)?.voiceURI
FindURI(seq, P(_)) ==
  IF FirstIndex(seq, P) = 0 THEN Undefined ELSE seq[FirstIndex(seq, P)].voiceURI

\* arr[0]?.voiceURI
FirstURI(seq) == IF seq = <<>> THEN Undefined ELSE seq[1].voiceURI

\* arr.find(v => v.voiceURI === uri) is defined
Resolves(seq, uri) == \E k \in 1..Len(seq) : seq[k].voiceURI = uri

(***************************************************************************)
(* Literals of the code.                                                   *)
(***************************************************************************)
Zh == <<"z","h">>
Ja == <<"j","a">>
En == <<"e","n">>
ZhHK == <<"z","h","-","H","K">>
ZhTW == <<"z","h","-","T","W">>
EnUS == <<"e","n","-","U","S">>
EnGB == <<"e","n","-","G","B">>
EnAU == <<"e","n","-","A","U">>
EnCA == <<"e","n","-","C","A">>
EnNZ == <<"e","n","-","N","Z">>
FrFR == <<"f","r","-","F","R">>
ZhCN == <<"z","h","-","C","N">>
JaJP == <<"j","a","-","J","P">>
EnIN == <<"e","n","-","I","N">>

KwGoogle == <<"g","o","o","g","l","e">>
KwMicrosoft == <<"m","i","c","r","o","s","o","f","t">>
KwEmma == <<"e","m","m","a">>
KwYaoyao == <<"y","a","o","y","a","o">>
KwEdg == <<"e","d","g">>
KwChrome == <<"c","h","r","o","m","e">>

\* the options of the two language selects
LangOptions == {Zh, En, Ja}

(***************************************************************************)
(* Host voices and user agents the model draws from.                       *)
(***************************************************************************)
NmGoogle == <<"G","o","o","g","l","e">>
NmMicrosoft == <<"M","i","c","r","o","s","o","f","t">>
NmEmma == <<" ","E","m","m","a">>
NmAmelie == <<"A","m","e","l","i","e">>

VGoogleUS == [voiceURI |-> "gUS", name |-> NmGoogle, lang |-> EnUS]
VGoogleTW == [voiceURI |-> "gTW", name |-> NmGoogle, lang |-> ZhTW]
VMsEmma == [voiceURI |-> "msEmma", name |-> NmMicrosoft \o NmEmma, lang |-> EnUS]
VAmelie == [voiceURI |-> "amelie", name |-> NmAmelie, lang |-> FrFR]
VGoogleEmma == [voiceURI |-> "gEmma", name |-> NmGoogle \o <<" ","e","m","m","a">>,
                lang |-> EnGB]

\* the host voices of the catalog specification
CatalogUniverse == {VGoogleUS, VGoogleTW, VMsEmma, VAmelie, VGoogleEmma}

UaChrome == <<"C","h","r","o","m","e">>
UaEdge == <<"C","h","r","o","m","e"," ","E","d","g">>
UaFirefox == <<"F","i","r","e","f","o","x">>

UserAgents == {UaChrome, UaEdge, UaFirefox}

\* the lists of n distinct voices of U
HostListsOver(U, n) ==
  {s \in [1..n -> U] : \A a, b \in 1..n : a # b => s[a] # s[b]}

\* further host voices, for the catalog builder on its own
NmYaoyao == <<" ","Y","a","o","y","a","o">>
NmKyoko == <<"K","y","o","k","o">>

VGoogleCN == [voiceURI |-> "gCN", name |-> NmGoogle, lang |-> ZhCN]
VGoogleHK == [voiceURI |-> "gHK", name |-> NmGoogle, lang |-> ZhHK]
VGoogleJa == [voiceURI |-> "gJa", name |-> NmGoogle, lang |-> JaJP]
VMsYaoyao == [voiceURI |-> "msYaoyao", name |-> NmMicrosoft \o NmYaoyao, lang |-> ZhCN]
VMsTW == [voiceURI |-> "msTW", name |-> NmMicrosoft, lang |-> ZhTW]
VMsHK == [voiceURI |-> "msHK", name |-> NmMicrosoft, lang |-> ZhHK]
VMsJa == [voiceURI |-> "msJa", name |-> NmMicrosoft, lang |-> JaJP]
VMsAU == [voiceURI |-> "msAU", name |-> NmMicrosoft, lang |-> EnAU]
VMsCA == [voiceURI |-> "msCA", name |-> NmMicrosoft, lang |-> EnCA]
VMsNZ == [voiceURI |-> "msNZ", name |-> NmMicrosoft, lang |-> EnNZ]
VMsGB == [voiceURI |-> "msGB", name |-> NmMicrosoft, lang |-> EnGB]
VMsIN == [voiceURI |-> "msIN", name |-> NmMicrosoft, lang |-> EnIN]
VKyoko == [voiceURI |-> "kyoko", name |-> NmKyoko, lang |-> JaJP]

BuildUniverse ==
  CatalogUniverse \cup
  {VGoogleCN, VGoogleHK, VGoogleJa, VMsYaoyao, VMsTW, VMsHK, VMsJa,
   VMsAU, VMsCA, VMsNZ, VMsGB, VMsIN, VKyoko}

\* an Edge user agent without "Chrome", and one in upper case
UaEdgeOnly == <<"E","d","g","e">>
UaChromeUpper == <<"C","H","R","O","M","E">>

BuildAgents == UserAgents \cup {UaEdgeOnly, UaChromeUpper}

\* host voice lists of up to MaxBuildLen entries
BuildHostLists == UNION {HostListsOver(BuildUniverse, n) : n \in 0..MaxBuildLen}

\* host voice lists of up to MaxHostLen entries
CatalogHostLists == UNION {HostListsOver(CatalogUniverse, n) : n \in 0..MaxHostLen}


(***************************************************************************)
(* State.                                                                  *)
(***************************************************************************)
VARIABLES
  ua,                \* navigator.userAgent
  hostVoices,        \* what synth.getVoices() returns now
  speakingWhenQueued, \* the host's synth.speaking is true as soon as an utterance
                     \* is queued (TRUE), or only once one has begun (FALSE)
  mounted,           \* onMounted has run
  onvoiceschanged,   \* synth.onvoiceschanged = populateVoiceList is set
  text,              \* text.value, as its lines (text.value.split('\n'))
  voices,            \* voices.value, the catalog
  speaker1Lang,
  speaker2Lang,
  speaker1VoiceURI,
  speaker2VoiceURI,
  errorMessage,
  currentLineIndex,
  queue,             \* the synthesis engine's utterance queue (utterance ids)
  started,           \* the head of the queue has begun being spoken
  cancelled,         \* utterances removed by cancel() whose signal is not yet delivered
  utterances,        \* every utterance handed to synth.speak, in submission order
  dispatch,          \* one record per invocation of readAloud / speak
  calls,             \* runs of populateVoiceList since the host's list last
                     \* changed (history; counts 0, 1, "2 or more")
  recording,         \* a recorder's audio graph is connected (its stop not yet called)
  sampleRate,        \* ctx.sampleRate
  wav                \* the bytes of the buffer the last stop() returned, <<>> before

hostVars == <<ua, hostVoices, speakingWhenQueued>>
mountVars == <<mounted, onvoiceschanged>>
langVars == <<speaker1Lang, speaker2Lang>>
slotVars == <<speaker1VoiceURI, speaker2VoiceURI>>
synthVars == <<queue, started, cancelled, utterances>>
wavVars == <<recording, sampleRate, wav>>
appVars == <<ua, hostVoices, speakingWhenQueued, mounted, onvoiceschanged, text, voices,
             speaker1Lang, speaker2Lang, speaker1VoiceURI, speaker2VoiceURI,
             errorMessage, currentLineIndex, queue, started, cancelled,
             utterances, dispatch, calls>>
vars == <<appVars, wavVars>>

(***************************************************************************)
(* Status texts (errorMessage.value).                                      *)
(***************************************************************************)
MsgNone == ""
MsgUnsupported == "unsupported-environment"
MsgMissingInput == "missing-input"
MsgSharePrompt == "share-prompt"
MsgCaptureFailed == "capture-failed"
MsgRecording == "speaking-and-recording"
MsgNoVoiceSpeak == "no-suitable-voice (speak)"
MsgNoVoiceRead == "no-suitable-voice (readAloud)"
MsgSpeakError == "speak-error"
MsgSynthError == "synthesis-error"
MsgDownloaded == "wav-downloaded"

(***************************************************************************)
(* Voice Catalog Builder: populateVoiceList.                               *)
(***************************************************************************)
isEdge(agent) == Includes(ToLowerCase(agent), KwEdg)
\* the mutant of isChrome: "edg" is not looked at
isChromeAlone(agent) == Includes(ToLowerCase(agent), KwChrome)

isChrome(agent) == ~isEdge(agent) /\ Includes(ToLowerCase(agent), KwChrome)

\* (lang.startsWith('zh') && lang !== 'zh-HK') || lang.startsWith('ja')
ZhJaRule(lang) ==
  (StartsWith(lang, Zh) /\ lang # ZhHK) \/ StartsWith(lang, Ja)

\* the mutant of ChromeFilter: the name is not looked at
ChromeFilterAnyName(v) == ZhJaRule(v.lang) \/ StartsWith(v.lang, En)

ChromeFilter(v) ==
  /\ Includes(ToLowerCase(v.name), KwGoogle)
  /\ (ZhJaRule(v.lang) \/ StartsWith(v.lang, En))

\* the mutant of EdgeFilter: every English tag is accepted
EdgeFilterAnyEnglish(v) ==
  /\ Includes(ToLowerCase(v.name), KwMicrosoft)
  /\ (ZhJaRule(v.lang) \/ StartsWith(v.lang, En))

EdgeFilter(v) ==
  /\ Includes(ToLowerCase(v.name), KwMicrosoft)
  /\ (ZhJaRule(v.lang) \/ v.lang \in {EnUS, EnGB, EnAU, EnCA, EnNZ})

GenericFilter(v) == ZhJaRule(v.lang) \/ StartsWith(v.lang, En)

\* the mutant of langOrder: English is one rank
langOrderCoarse(lang) ==
  IF StartsWith(lang, Zh) THEN 0
  ELSE IF StartsWith(lang, En) THEN 1
  ELSE IF StartsWith(lang, Ja) THEN 7
  ELSE 8

langOrder(lang) ==
  IF StartsWith(lang, Zh) THEN 0
  ELSE IF lang = EnUS THEN 1
  ELSE IF lang = EnAU THEN 2
  ELSE IF lang = EnCA THEN 3
  ELSE IF lang = EnNZ THEN 4
  ELSE IF lang = EnGB THEN 5
  ELSE IF StartsWith(lang, En) THEN 6
  ELSE IF StartsWith(lang, Ja) THEN 7
  ELSE 8

\* msVoices.sort((a, b) => langOrder(a.lang) - langOrder(b.lang)): Array.prototype.sort
\* is stable, so the result is the entries of rank 0, then of rank 1, ..., each in
\* their original order
RECURSIVE SortFromRank(_, _)
SortFromRank(seq, r) ==
  IF r > 8 THEN <<>>
  ELSE SelectSeq(seq, LAMBDA v : langOrder(v.lang) = r) \o SortFromRank(seq, r + 1)

SortByLangOrder(seq) == SortFromRank(seq, 0)

\* the mutant of FilteredCatalog: the host's list is taken as it is
FilteredCatalogUnfiltered(agent, availableVoices) == availableVoices

\* the value assigned to voices.value when availableVoices is non-empty
FilteredCatalog(agent, availableVoices) ==
  IF isChrome(agent) THEN SelectSeq(availableVoices, ChromeFilter)
  ELSE IF isEdge(agent) THEN SortByLangOrder(SelectSeq(availableVoices, EdgeFilter))
  ELSE SelectSeq(availableVoices, GenericFilter)

\* the mutant of DefaultSpeaker1: the name is not looked at
DefaultSpeaker1NoEmma(cat) ==
  OrElse(FindURI(cat, LAMBDA v : StartsWith(v.lang, En)), FirstURI(cat))

\* Speaker 1 default: Emma, else the first English voice, else the first entry
DefaultSpeaker1(cat) ==
  OrElse(FindURI(cat, LAMBDA v : Includes(ToLowerCase(v.name), KwEmma)),
  OrElse(FindURI(cat, LAMBDA v : StartsWith(v.lang, En)),
         FirstURI(cat)))

\* Speaker 2 default on Chrome and on other browsers
DefaultSpeaker2TW(cat) ==
  OrElse(FindURI(cat, LAMBDA v : v.lang = ZhTW),
  OrElse(FindURI(cat, LAMBDA v : StartsWith(v.lang, Zh)),
         FirstURI(cat)))

\* Speaker 2 default on Edge
DefaultSpeaker2Yaoyao(cat) ==
  OrElse(FindURI(cat, LAMBDA v : Includes(ToLowerCase(v.name), KwYaoyao)),
  OrElse(FindURI(cat, LAMBDA v : StartsWith(v.lang, Zh)),
         FirstURI(cat)))

\* the mutant of DefaultSpeaker2: Edge takes the default of the other branches
DefaultSpeaker2Everywhere(agent, cat) == DefaultSpeaker2TW(cat)

DefaultSpeaker2(agent, cat) ==
  IF isChrome(agent) THEN DefaultSpeaker2TW(cat)
  ELSE IF isEdge(agent) THEN DefaultSpeaker2Yaoyao(cat)
  ELSE DefaultSpeaker2TW(cat)

\* watch(voices, ...): the selections after the callback has run on newVoices
WatchVoices1(newVoices, s1) ==
  IF Len(newVoices) > 0 /\ ~Resolves(newVoices, s1)
  THEN newVoices[1].voiceURI ELSE s1

WatchVoices2(newVoices, s2) ==
  IF Len(newVoices) > 0 /\ ~Resolves(newVoices, s2)
  THEN (IF Len(newVoices) > 1 THEN newVoices[2].voiceURI ELSE newVoices[1].voiceURI)
  ELSE s2

\* the mutant of AlreadyPopulated: the guard of line 29 is missing
AlreadyPopulatedNever == FALSE

\* if (voices.value.length > 0) return;
AlreadyPopulated == Len(voices) > 0

\* populateVoiceList, followed by the watch(voices) callback that the assignment
\* to voices.value schedules (it runs before any other task)
populateVoiceList ==
  /\ calls' = (IF hostVoices' # hostVoices THEN 1
               ELSE IF calls = 0 THEN 1 ELSE 2)
  /\ IF AlreadyPopulated
     THEN UNCHANGED <<voices, slotVars, errorMessage>>
     ELSE IF Len(hostVoices') > 0
     THEN /\ voices' = FilteredCatalog(ua, hostVoices')
          /\ speaker1VoiceURI' =
               WatchVoices1(voices', DefaultSpeaker1(voices'))
          /\ speaker2VoiceURI' =
               WatchVoices2(voices', DefaultSpeaker2(ua, voices'))
          /\ UNCHANGED errorMessage
     ELSE /\ errorMessage' = MsgUnsupported
          /\ UNCHANGED <<voices, slotVars>>

(***************************************************************************)
(* Voice Selector: the language selects and the voice selects.             *)
(***************************************************************************)
\* the mutant of filteredVoicesByLang: the options are taken from the host's list
filteredVoicesByLangHost(lang) ==
  SelectSeq(hostVoices, LAMBDA v : StartsWith(v.lang, lang))

\* voices.value.filter(v => v.lang.startsWith(lang))
filteredVoicesByLang(lang) == SelectSeq(voices, LAMBDA v : StartsWith(v.lang, lang))

\* the mutant of WatchLang: the test filtered.length > 0 is missing
WatchLangUnguarded(newLang, current) ==
  IF Len(filteredVoicesByLang(newLang)) > 0
  THEN filteredVoicesByLang(newLang)[1].voiceURI
  ELSE Undefined

\* the mutant of WatchLang: the first candidate is taken whatever the language
WatchLangFirst(newLang, current) ==
  IF Len(filteredVoicesByLang(newLang)) > 0
  THEN filteredVoicesByLang(newLang)[1].voiceURI
  ELSE current

\* watch(speaker1Lang) / watch(speaker2Lang): the slot's selection after the callback
WatchLang(newLang, current) ==
  LET filtered == filteredVoicesByLang(newLang) IN
  IF Len(filtered) > 0
  THEN IF newLang = En
       THEN (IF FirstIndex(filtered, LAMBDA v : Includes(ToLowerCase(v.name), KwEmma)) # 0
             THEN FindURI(filtered, LAMBDA v : Includes(ToLowerCase(v.name), KwEmma))
             ELSE filtered[1].voiceURI)
       ELSE filtered[1].voiceURI
  ELSE current


(***************************************************************************)
(* WAV Recorder: the samples and the encoder of stop().                    *)
(*                                                                         *)
(* A Float32 sample is an integer number of 1/SampleUnit, so that the      *)
(* clamp, the two scale factors and the truncation of setInt16 are         *)
(* computed on exact values.                                               *)
(***************************************************************************)
SampleUnit == 4

\* sample values: below -1, -1, a negative fraction, 0, a positive fraction, 1,
\* above 1
SampleValues ==
  {-SampleUnit - 2, -SampleUnit, -1, 0, 1, SampleUnit, SampleUnit + 2}

\* the blocks onaudioprocess delivers: all of one length (two samples stand for
\* the 4096 of createScriptProcessor)
Blocks == [1..2 -> SampleValues]

\* the values of ctx.sampleRate
SampleRates == {8000, 44100, 48000}

Min2(a, b) == IF a < b THEN a ELSE b
Max2(a, b) == IF a > b THEN a ELSE b

\* the number's integer part (the truncation of ToInt16 / ToUint32), for the
\* rational num / den with den > 0
Truncate(num, den) == IF num >= 0 THEN num \div den ELSE -((-num) \div den)

\* samples.reduce((sum, a) => sum + a.length, 0)
RECURSIVE TotalLength(_)
TotalLength(blocks) ==
  IF blocks = <<>> THEN 0 ELSE Len(Head(blocks)) + TotalLength(Tail(blocks))

\* the samples in the order the two nested loops visit them
RECURSIVE Flatten(_)
Flatten(blocks) ==
  IF blocks = <<>> THEN <<>> ELSE Head(blocks) \o Flatten(Tail(blocks))

\* Math.max(-1, Math.min(1, f32[i]))
Clamp(x) == Max2(-SampleUnit, Min2(SampleUnit, x))

\* the mutant of Pcm16Value: the sample is scaled without being clamped
Pcm16ValueUnclamped(x) ==
  LET n == Truncate(IF x < 0 THEN x * 32768 ELSE x * 32767, SampleUnit)
      u == n % 65536
  IN IF u >= 32768 THEN u - 65536 ELSE u

\* the Int16 that setInt16(offset, s < 0 ? s * 0x8000 : s * 0x7FFF, true) stores:
\* the product truncated, modulo 2^16, read as a signed value
Pcm16Value(x) ==
  LET s == Clamp(x)
      n == Truncate(IF s < 0 THEN s * 32768 ELSE s * 32767, SampleUnit)
      u == n % 65536
  IN IF u >= 32768 THEN u - 65536 ELSE u

\* the two bytes of an Int16 / Uint16, little-endian
Bytes16(n) == LET u == n % 65536 IN <<u % 256, u \div 256>>

\* the four bytes setUint32(o, n, true) stores: n modulo 2^32, low byte first
Bytes32(n) ==
  <<n % 256, (n \div 256) % 256, (n \div 65536) % 256, (n \div 16777216) % 256>>

\* the bytes of pcm16 once the loops have run
RECURSIVE Pcm16Bytes(_)
Pcm16Bytes(flat) ==
  IF flat = <<>> THEN <<>>
  ELSE Bytes16(Pcm16Value(Head(flat))) \o Pcm16Bytes(Tail(flat))

\* s.charCodeAt(i) of the four tags
TagRIFF == <<82, 73, 70, 70>>
TagWAVE == <<87, 65, 86, 69>>
TagFmt == <<102, 109, 116, 32>>
TagData == <<100, 97, 116, 97>>

\* a view write: bytes stored from byte offset o on (offsets are 0-based)
WriteAt(buf, o, bytes) ==
  [k \in 1..Len(buf) |->
     IF k - 1 >= o /\ k - 1 < o + Len(bytes) THEN bytes[k - o] ELSE buf[k]]

\* the mutant of RiffChunkSize: the size of the whole file
RiffChunkSizeWhole(byteLength) == 44 + byteLength

\* view.setUint32(4, 36 + pcm16.byteLength, true)
RiffChunkSize(byteLength) == 36 + byteLength

\* the bytes of the buffer stop() wraps in a Blob
EncodeWav(blocks, rate) ==
  LET length == TotalLength(blocks)
      pcm16 == Pcm16Bytes(Flatten(blocks))
      byteLength == length * 2
      b0 == [k \in 1..(44 + byteLength) |-> 0]
      b1 == WriteAt(b0, 0, TagRIFF)
      b2 == WriteAt(b1, 4, Bytes32(RiffChunkSize(byteLength)))
      b3 == WriteAt(b2, 8, TagWAVE)
      b4 == WriteAt(b3, 12, TagFmt)
      b5 == WriteAt(b4, 16, Bytes32(16))
      b6 == WriteAt(b5, 20, Bytes16(1))
      b7 == WriteAt(b6, 22, Bytes16(1))
      b8 == WriteAt(b7, 24, Bytes32(rate))
      b9 == WriteAt(b8, 28, Bytes32(rate * 2))
      b10 == WriteAt(b9, 32, Bytes16(2))
      b11 == WriteAt(b10, 34, Bytes16(16))
      b12 == WriteAt(b11, 36, TagData)
      b13 == WriteAt(b12, 40, Bytes32(byteLength))
  IN WriteAt(b13, 44, pcm16)

\* processor.onaudioprocess of the recorder of dispatch d: one more block of
\* samples, while its graph is connected
AudioProcess(d, block) ==
  /\ d \in 1..Len(dispatch)
  /\ dispatch[d].capture = "active"
  /\ Len(dispatch[d].samples) < MaxBlocks
  /\ dispatch' = [dispatch EXCEPT ![d].samples = Append(@, block)]
  /\ UNCHANGED <<wavVars, hostVars, mountVars, text, voices, langVars, slotVars,
                 errorMessage, currentLineIndex, synthVars, calls>>

(***************************************************************************)
(* Line Dispatcher: the parts of readAloud and speak that do not suspend.  *)
(***************************************************************************)
Speaker1Prefix == <<"S","p","e","a","k","e","r"," ","1",":">>
Speaker2Prefix == <<"S","p","e","a","k","e","r"," ","2",":">>

\* text.value === '' (equivalently !text.value): the only line is the empty one
TextIsEmpty(t) == t = << <<>> >>

\* the mutant of NonBlankLines: the blank lines are not filtered out
NonBlankLinesUnfiltered(t) == t

\* text.value.split('\n').filter(line => line.trim() !== '')
NonBlankLines(t) == SelectSeq(t, LAMBDA l : ~IsBlank(l))

\* the mutant of StripPrefix: the pattern lacks its \s*
StripPrefixOnly(line, prefix) == SubSeq(line, Len(prefix) + 1, Len(line))

\* line.replace(/^Speaker N:\s*/, '') on a line that starts with the prefix
StripPrefix(line, prefix) ==
  DropLeadingSpace(SubSeq(line, Len(prefix) + 1, Len(line)))

\* the text given to new SpeechSynthesisUtterance
UtterText(line) ==
  IF StartsWith(line, Speaker1Prefix) THEN StripPrefix(line, Speaker1Prefix)
  ELSE IF StartsWith(line, Speaker2Prefix) THEN StripPrefix(line, Speaker2Prefix)
  ELSE line

\* the mutant of VoiceRef: every line is looked up with slot 1's selection
VoiceRefSlot1(line) == speaker1VoiceURI

\* the selection the line's voice is looked up with
VoiceRef(line) ==
  IF StartsWith(line, Speaker1Prefix) THEN speaker1VoiceURI
  ELSE IF StartsWith(line, Speaker2Prefix) THEN speaker2VoiceURI
  ELSE speaker1VoiceURI

ReadAloud == "readAloud"
Speak == "speak"

\* the engine is speaking the head of its queue
BeingSpoken == queue # <<>> /\ started

\* synth.speaking as the host reports it: an utterance has begun being spoken and
\* has not completed, or, on a host that counts the utterances waiting in the
\* queue as well, the queue is not empty
Speaking == queue # <<>> /\ (started \/ speakingWhenQueued)

\* if (synth.speaking) synth.cancel(): the queue is emptied, and each utterance
\* removed is owed the signal the engine sends for a cancelled utterance
QueueAfterCancel == IF Speaking THEN <<>> ELSE queue
CancelledAfterCancel ==
  IF Speaking THEN cancelled \cup {queue[k] : k \in 1..Len(queue)} ELSE cancelled

\* the mutant of MissingInput: the catalog is not looked at
MissingInputTextOnly == TextIsEmpty(text)

\* !text.value || voices.value.length === 0
\* (readAloud: the else branch of text.value !== '' && voices.value.length > 0)
MissingInput == TextIsEmpty(text) \/ Len(voices) = 0

\* some recorder's graph is connected: source.connect(processor) and
\* processor.connect(ctx.destination) have run and its stop() has not
Connected(ds) == \E k \in 1..Len(ds) : ds[k].capture = "active"

\* The body of the for loop at index i, up to the first point where the dispatch
\* suspends or returns, and what follows the loop when i is past the last line.
\*   ds: the dispatch records, ds[d] being the one that runs
\*   msg, q, us: errorMessage, the engine's queue and the utterances at that moment
RunLoop(ds, d, i, msg, q, us) ==
  LET rec == ds[d] IN
  /\ IF i < Len(rec.lines)
     THEN LET line == rec.lines[i + 1] IN
          IF ~Resolves(voices, VoiceRef(line))
          THEN \* if (!voice) { errorMessage.value = ...; return; }
               /\ errorMessage' =
                    (IF rec.mode = ReadAloud THEN MsgNoVoiceRead ELSE MsgNoVoiceSpeak)
               /\ currentLineIndex' =
                    (IF rec.mode = ReadAloud THEN NoLine ELSE currentLineIndex)
               /\ dispatch' = [ds EXCEPT ![d].pc = "novoice", ![d].i = i]
               /\ queue' = q
               /\ utterances' = us
               /\ UNCHANGED wav
          ELSE \* synth.speak(utterance), then await
               /\ errorMessage' = msg
               /\ currentLineIndex' =
                    (IF rec.mode = ReadAloud THEN i ELSE currentLineIndex)
               /\ utterances' =
                    Append(us, [d |-> d, i |-> i, text |-> UtterText(line),
                                voice |-> VoiceRef(line), signal |-> "none"])
               /\ queue' = Append(q, Len(us) + 1)
               /\ dispatch' = [ds EXCEPT ![d].pc = "utter", ![d].i = i,
                                         ![d].awaiting = Len(us) + 1]
               /\ UNCHANGED wav
     ELSE IF rec.mode = ReadAloud
     THEN \* currentLineIndex.value = null
          /\ errorMessage' = msg
          /\ currentLineIndex' = NoLine
          /\ dispatch' = [ds EXCEPT ![d].pc = "done", ![d].i = i]
          /\ queue' = q
          /\ utterances' = us
          /\ UNCHANGED wav
     ELSE \* recorder.stop(): the graph is disconnected and the samples are encoded;
          \* a.click(); errorMessage.value = 'WAV ...'
          /\ wav' = EncodeWav(rec.samples, sampleRate)
          /\ errorMessage' = MsgDownloaded
          /\ UNCHANGED currentLineIndex
          /\ dispatch' = [ds EXCEPT ![d].pc = "done", ![d].i = i,
                                    ![d].capture = "stopped",
                                    ![d].stops = rec.stops + 1,
                                    ![d].downloads = rec.downloads + 1]
          /\ queue' = q
          /\ utterances' = us
  /\ recording' = Connected(dispatch')

\* samples: the blocks onaudioprocess pushed to the recorder of this speak
NewDispatch(mode) ==
  [mode |-> mode, pc |-> "start", lines |-> <<>>, i |-> 0, awaiting |-> 0,
   capture |-> "none", stops |-> 0, downloads |-> 0, samples |-> <<>>]


\* the mutant of ResolvesOn: the promise is resolved when the utterance starts
ResolvesOnStart(signal) == signal \in {"start", "end"}

\* utterance.onend = () => resolve(): the signals that resolve the awaited promise
ResolvesOn(signal) == signal = "end"

\* speak: utter.onerror = (e) => { ...; reject(e) }: the signals that reject it
RejectsOn(mode, signal) == mode = Speak /\ signal = "error"

\* The handlers of utterance u run for `signal`, and then whatever the dispatch
\* that awaits u does once its promise is settled.  q is the engine's queue after
\* the engine has dropped u.
Deliver(u, signal, q) ==
  LET d == utterances[u].d
      rec == dispatch[d]
      waiting == rec.pc = "utter" /\ rec.awaiting = u
      us == IF signal \in {"end", "error"}
            THEN [utterances EXCEPT ![u].signal = signal] ELSE utterances
      msg == IF signal = "error"
             THEN (IF rec.mode = ReadAloud THEN MsgSynthError ELSE MsgSpeakError)
             ELSE errorMessage
  IN IF waiting /\ ResolvesOn(signal)
     THEN RunLoop(dispatch, d, rec.i + 1, msg, q, us)
     ELSE IF waiting /\ RejectsOn(rec.mode, signal)
     THEN /\ errorMessage' = msg
          /\ dispatch' = [dispatch EXCEPT ![d].pc = "rejected"]
          /\ queue' = q
          /\ utterances' = us
          /\ UNCHANGED <<currentLineIndex, recording, wav>>
     ELSE /\ errorMessage' = msg
          /\ queue' = q
          /\ utterances' = us
          /\ UNCHANGED <<dispatch, currentLineIndex, recording, wav>>

(***************************************************************************)
(* Texts the user types.                                                   *)
(***************************************************************************)
TextEmpty == << <<>> >>
TextBlank == << <<" ">>, <<>> >>
TextOne == << <<"h","i">> >>
TextTwo == << Speaker1Prefix \o <<"h","i">>, <<>>,
              Speaker2Prefix \o <<" ","y","o">> >>

Texts == {TextEmpty, TextBlank, TextOne, TextTwo}

\* lines for the prefix rules: no prefix or either prefix, then no white space or
\* a space and a tab, then nothing or a text that holds a speaker prefix again
LinePrefixes == {<<>>, Speaker1Prefix, Speaker2Prefix}
LineGaps == {<<>>, <<" ", "\t">>}
LineBodies == {<<>>, <<"a"," ">> \o Speaker1Prefix \o <<"b">>,
               Speaker2Prefix \o <<"x">>}
Lines == {p \o g \o b : p \in LinePrefixes, g \in LineGaps, b \in LineBodies}

\* "Speaker 1:Hello", "Speaker 2:X" and a blank line
TextDialogue == << Speaker1Prefix \o <<"H","e","l","l","o">>,
                   Speaker2Prefix \o <<"X">>, <<>> >>

\* "hi" and "Speaker 1:yo": two lines spoken with slot 1's voice
TextSameSlot == << <<"h","i">>, Speaker1Prefix \o <<"y","o">> >>

\* one-line texts over Lines (the empty line is the empty text) and two dialogues
LineTexts == {<<l>> : l \in Lines} \cup {TextTwo, TextDialogue}

(***************************************************************************)
(* Initial state: the refs as constructed, before onMounted.               *)
(***************************************************************************)
InitWith(agents, hostLists, readings) ==
  /\ ua \in agents
  /\ hostVoices \in hostLists
  /\ speakingWhenQueued \in readings
  /\ mounted = FALSE
  /\ onvoiceschanged = FALSE
  /\ text = TextEmpty
  /\ voices = <<>>
  /\ speaker1Lang = En
  /\ speaker2Lang = Zh
  /\ speaker1VoiceURI = Null
  /\ speaker2VoiceURI = Null
  /\ errorMessage = MsgNone
  /\ currentLineIndex = NoLine
  /\ queue = <<>>
  /\ started = FALSE
  /\ cancelled = {}
  /\ utterances = <<>>
  /\ dispatch = <<>>
  /\ calls = 0

\* no recorder yet: nothing connected, nothing encoded
InitRecorder(rates) ==
  /\ recording = FALSE
  /\ sampleRate \in rates
  /\ wav = <<>>

(***************************************************************************)
(* Mount and the host's voice list.                                        *)
(***************************************************************************)
Mount ==
  /\ ~mounted
  /\ mounted' = TRUE
  /\ UNCHANGED <<wavVars, hostVars, text, langVars, currentLineIndex, synthVars, dispatch>>
  /\ IF Len(hostVoices) = 0
     THEN /\ onvoiceschanged' = TRUE
          /\ UNCHANGED <<voices, slotVars, errorMessage, calls>>
     ELSE /\ populateVoiceList
          /\ UNCHANGED onvoiceschanged

\* the host's list becomes h (possibly the same list again) and the host fires
\* voiceschanged
HostVoicesChanged(h) ==
  /\ hostVoices' = h
  /\ UNCHANGED <<wavVars, ua, speakingWhenQueued, mountVars, text, langVars,
                 currentLineIndex, synthVars, dispatch>>
  /\ IF onvoiceschanged
     THEN populateVoiceList
     ELSE /\ calls' = (IF h # hostVoices THEN 0 ELSE calls)
          /\ UNCHANGED <<voices, slotVars, errorMessage>>

(***************************************************************************)
(* The user's selects and the text area.                                   *)
(***************************************************************************)
ChangeLang1(l) ==
  /\ mounted
  /\ l # speaker1Lang
  /\ speaker1Lang' = l
  /\ speaker1VoiceURI' = WatchLang(l, speaker1VoiceURI)
  /\ UNCHANGED <<wavVars, hostVars, mountVars, text, voices, speaker2Lang, speaker2VoiceURI,
                 errorMessage, currentLineIndex, synthVars, dispatch, calls>>

ChangeLang2(l) ==
  /\ mounted
  /\ l # speaker2Lang
  /\ speaker2Lang' = l
  /\ speaker2VoiceURI' = WatchLang(l, speaker2VoiceURI)
  /\ UNCHANGED <<wavVars, hostVars, mountVars, text, voices, speaker1Lang, speaker1VoiceURI,
                 errorMessage, currentLineIndex, synthVars, dispatch, calls>>

\* <select v-model="speaker1VoiceURI">: the user picks the k-th option shown
SelectVoice1(k) ==
  /\ mounted
  /\ k \in 1..Len(filteredVoicesByLang(speaker1Lang))
  /\ filteredVoicesByLang(speaker1Lang)[k].voiceURI # speaker1VoiceURI
  /\ speaker1VoiceURI' = filteredVoicesByLang(speaker1Lang)[k].voiceURI
  /\ UNCHANGED <<wavVars, hostVars, mountVars, text, voices, langVars, speaker2VoiceURI,
                 errorMessage, currentLineIndex, synthVars, dispatch, calls>>

SelectVoice2(k) ==
  /\ mounted
  /\ k \in 1..Len(filteredVoicesByLang(speaker2Lang))
  /\ filteredVoicesByLang(speaker2Lang)[k].voiceURI # speaker2VoiceURI
  /\ speaker2VoiceURI' = filteredVoicesByLang(speaker2Lang)[k].voiceURI
  /\ UNCHANGED <<wavVars, hostVars, mountVars, text, voices, langVars, speaker1VoiceURI,
                 errorMessage, currentLineIndex, synthVars, dispatch, calls>>

\* <textarea v-model="text">
EditText(t) ==
  /\ mounted
  /\ t # text
  /\ text' = t
  /\ UNCHANGED <<wavVars, hostVars, mountVars, voices, langVars, slotVars, errorMessage,
                 currentLineIndex, synthVars, dispatch, calls>>

(***************************************************************************)
(* The two buttons.                                                        *)
(***************************************************************************)
ClickReadAloud ==
  /\ mounted
  /\ Len(dispatch) < MaxDispatch
  /\ started' = (IF Speaking THEN FALSE ELSE started)
  /\ cancelled' = CancelledAfterCancel
  /\ UNCHANGED <<sampleRate, hostVars, mountVars, text, voices, langVars, slotVars, calls>>
  /\ LET d == Len(dispatch) + 1 IN
     IF ~MissingInput
     THEN RunLoop(Append(dispatch,
                         [NewDispatch(ReadAloud) EXCEPT !.lines = NonBlankLines(text)]),
                  d, 0, MsgNone, QueueAfterCancel, utterances)
     ELSE /\ errorMessage' = MsgMissingInput
          /\ dispatch' = Append(dispatch, [NewDispatch(ReadAloud) EXCEPT !.pc = "missing"])
          /\ queue' = QueueAfterCancel
          /\ UNCHANGED <<currentLineIndex, utterances, recording, wav>>

ClickSpeak ==
  /\ mounted
  /\ Len(dispatch) < MaxDispatch
  /\ started' = (IF Speaking THEN FALSE ELSE started)
  /\ cancelled' = CancelledAfterCancel
  /\ queue' = QueueAfterCancel
  /\ UNCHANGED <<wavVars, hostVars, mountVars, text, voices, langVars, slotVars, calls,
                 currentLineIndex, utterances>>
  /\ IF MissingInput
     THEN /\ errorMessage' = MsgMissingInput
          /\ dispatch' = Append(dispatch, [NewDispatch(Speak) EXCEPT !.pc = "missing"])
     ELSE \* recorder = await startWavRecorder(): getDisplayMedia is requested
          /\ errorMessage' = MsgSharePrompt
          /\ dispatch' = Append(dispatch, [NewDispatch(Speak) EXCEPT
                                             !.pc = "grant", !.capture = "requested"])

\* getDisplayMedia resolves: startWavRecorder builds the audio graph and resolves,
\* and speak goes on to its loop
GrantResolve(d) ==
  /\ d \in 1..Len(dispatch)
  /\ dispatch[d].pc = "grant"
  /\ UNCHANGED <<sampleRate, hostVars, mountVars, text, voices, langVars, slotVars, calls,
                 started, cancelled>>
  /\ RunLoop([dispatch EXCEPT ![d].capture = "active",
                              ![d].lines = NonBlankLines(text)],
             d, 0, MsgRecording, queue, utterances)

\* the mutant of GrantReject: the catch sets the text and does not return
GrantRejectNoReturn(d) ==
  /\ d \in 1..Len(dispatch)
  /\ dispatch[d].pc = "grant"
  /\ UNCHANGED <<sampleRate, hostVars, mountVars, text, voices, langVars, slotVars, calls,
                 started, cancelled>>
  /\ RunLoop([dispatch EXCEPT ![d].capture = "none",
                              ![d].lines = NonBlankLines(text)],
             d, 0, MsgRecording, queue, utterances)

\* getDisplayMedia rejects (denied, cancelled, or an error): the catch of speak
GrantReject(d) ==
  /\ d \in 1..Len(dispatch)
  /\ dispatch[d].pc = "grant"
  /\ errorMessage' = MsgCaptureFailed
  /\ dispatch' = [dispatch EXCEPT ![d].pc = "denied", ![d].capture = "none"]
  /\ UNCHANGED <<wavVars, hostVars, mountVars, text, voices, langVars, slotVars, calls,
                 currentLineIndex, synthVars>>

(***************************************************************************)
(* The synthesis engine.                                                   *)
(***************************************************************************)
\* the head of the queue begins to be spoken (its start event fires)
EngineStart ==
  /\ queue # <<>>
  /\ ~started
  /\ started' = TRUE
  /\ Deliver(Head(queue), "start", queue)
  /\ UNCHANGED <<sampleRate, hostVars, mountVars, text, voices, langVars, slotVars, calls,
                 cancelled>>

\* the utterance being spoken completes (its end event fires)
EngineEnd ==
  /\ BeingSpoken
  /\ started' = FALSE
  /\ Deliver(Head(queue), "end", Tail(queue))
  /\ UNCHANGED <<sampleRate, hostVars, mountVars, text, voices, langVars, slotVars, calls,
                 cancelled>>

\* the engine fails on the head of the queue (its error event fires)
EngineError ==
  /\ queue # <<>>
  /\ started' = FALSE
  /\ Deliver(Head(queue), "error", Tail(queue))
  /\ UNCHANGED <<sampleRate, hostVars, mountVars, text, voices, langVars, slotVars, calls,
                 cancelled>>

\* the signal for an utterance that cancel() removed: an error event
\* ("interrupted" / "canceled") or, on some engines, an end event
CancelSignal(u, signal) ==
  /\ u \in cancelled
  /\ cancelled' = cancelled \ {u}
  /\ Deliver(u, signal, queue)
  /\ UNCHANGED <<sampleRate, hostVars, mountVars, text, voices, langVars, slotVars, calls,
                 started>>

(***************************************************************************)
(* Specifications.                                                         *)
(***************************************************************************)
\* the host of the dispatch specification: its voices are there at mount, or
\* arrive later with a voiceschanged event
DispatchHost == <<VGoogleUS, VGoogleTW>>

\* the languages the user switches between in the dispatch specification
DispatchLangs == {En, Zh}

\* the block the host delivers to a connected recorder in the dispatch
\* specification
DispatchBlock == <<1, -SampleUnit>>

\* the two readings of synth.speaking hosts give
SpeakingReadings == BOOLEAN

\* what the host reports in the dispatch specification: nothing yet, or its voices
DispatchHostLists == {<<>>, DispatchHost}

\* The dispatch specification: both buttons, the engine, the capture grant and
\* the recorder's tap, with the user editing the text and slot 1's selects
\* (slot 2's selects are exercised by SpecCatalog and SpecVoices).
Init == InitWith({UaChrome}, DispatchHostLists, SpeakingReadings) /\ InitRecorder({48000})

Next ==
  \/ Mount
  \/ \E h \in DispatchHostLists : HostVoicesChanged(h)
  \/ \E l \in DispatchLangs : ChangeLang1(l)
  \/ \E k \in 1..Len(DispatchHost) : SelectVoice1(k)
  \/ \E t \in Texts : EditText(t)
  \/ ClickReadAloud
  \/ ClickSpeak
  \/ \E d \in 1..MaxDispatch : GrantResolve(d)
  \/ \E d \in 1..MaxDispatch : GrantReject(d)
  \/ \E d \in 1..Len(dispatch) :
       Len(dispatch[d].samples) < MaxTapBlocks /\ AudioProcess(d, DispatchBlock)
  \/ EngineStart
  \/ EngineEnd
  \/ EngineError
  \/ \E u \in cancelled, signal \in {"end", "error"} : CancelSignal(u, signal)

Spec == Init /\ [][Next]_vars

\* the catalog alone: every host list and user agent, no dispatch
InitCatalog == InitWith(UserAgents, CatalogHostLists, {FALSE}) /\ InitRecorder({48000})

NextCatalog ==
  \/ Mount
  \/ \E h \in CatalogHostLists : HostVoicesChanged(h)
  \/ \E l \in LangOptions : ChangeLang1(l)
  \/ \E l \in LangOptions : ChangeLang2(l)
  \/ \E k \in 1..MaxHostLen : SelectVoice1(k)
  \/ \E k \in 1..MaxHostLen : SelectVoice2(k)

SpecCatalog == InitCatalog /\ [][NextCatalog]_vars

\* the recorder of one speak over a one-line text, at every sample rate and with
\* every block the host may deliver
InitWav == InitWith({UaChrome}, {DispatchHost}, SpeakingReadings) /\ InitRecorder(SampleRates)

NextWav ==
  \/ Mount
  \/ EditText(TextOne)
  \/ (dispatch = <<>> /\ ClickSpeak)
  \/ GrantResolve(1)
  \/ \E block \in Blocks : AudioProcess(1, block)
  \/ EngineStart
  \/ EngineEnd

SpecWav == InitWav /\ [][NextWav]_vars

\* the dispatcher on the texts of LineTexts, with the voices there at mount
InitLines == InitWith({UaChrome}, {DispatchHost}, SpeakingReadings) /\ InitRecorder({48000})

NextLines ==
  \/ Mount
  \/ \E t \in LineTexts : EditText(t)
  \/ ClickReadAloud
  \/ ClickSpeak
  \/ \E d \in 1..MaxDispatch : GrantResolve(d)
  \/ EngineStart
  \/ EngineEnd

SpecLines == InitLines /\ [][NextLines]_vars

\* the selects during a dispatch: a text of two lines for slot 1, and the user
\* changing the language preferences while the lines are spoken
InitVoices == InitWith({UaChrome}, {DispatchHost}, SpeakingReadings) /\ InitRecorder({48000})

NextVoices ==
  \/ Mount
  \/ EditText(TextSameSlot)
  \/ \E l \in DispatchLangs : ChangeLang1(l)
  \/ \E l \in DispatchLangs : ChangeLang2(l)
  \/ ClickReadAloud
  \/ ClickSpeak
  \/ \E d \in 1..MaxDispatch : GrantResolve(d)
  \/ EngineStart
  \/ EngineEnd

SpecVoices == InitVoices /\ [][NextVoices]_vars

\* the catalog builder alone: onMounted on every user agent and host list
InitBuild == InitWith(BuildAgents, BuildHostLists, {FALSE}) /\ InitRecorder({48000})

NextBuild == Mount

SpecBuild == InitBuild /\ [][NextBuild]_vars


(***************************************************************************)
(* Vocabulary of the properties.                                           *)
(***************************************************************************)
\* the utterances dispatch d has submitted, in submission order
UtterancesOf(us, d) == SelectSeq(us, LAMBDA u : u.d = d)

\* the step invokes readAloud or speak (one more dispatch record)
Invoked == Len(dispatch') = Len(dispatch) + 1

\* the lines of t that hold a character other than white space, in order
RECURSIVE PlanOf(_)
PlanOf(t) ==
  IF t = <<>> THEN <<>>
  ELSE IF \E k \in 1..Len(Head(t)) : Head(t)[k] \notin WhiteSpace
       THEN <<Head(t)>> \o PlanOf(Tail(t))
       ELSE PlanOf(Tail(t))

\* the step runs populateVoiceList: from onMounted when the host has voices, or
\* as the handler of voiceschanged when onMounted registered it
PopulateRuns ==
  \/ Mount /\ Len(hostVoices) > 0
  \/ onvoiceschanged /\ HostVoicesChanged(hostVoices')

\* the step is the host signalling a change of its voice list
HostSignals == HostVoicesChanged(hostVoices')

\* the vendor's filter accepts host voice v
Accepts(agent, v) ==
  IF isChrome(agent) THEN ChromeFilter(v)
  ELSE IF isEdge(agent) THEN EdgeFilter(v)
  ELSE GenericFilter(v)

\* the entries of a sequence
Entries(seq) == {seq[k] : k \in 1..Len(seq)}

\* the unsigned 32-bit little-endian field at byte offset o of a buffer
Uint32At(buf, o) ==
  buf[o + 1] + 256 * buf[o + 2] + 65536 * buf[o + 3] + 16777216 * buf[o + 4]

\* the signed 16-bit little-endian value at byte offset o of a buffer
Int16At(buf, o) ==
  LET u == buf[o + 1] + 256 * buf[o + 2]
  IN IF u >= 32768 THEN u - 65536 ELSE u

\* one recorder has been stopped: wav is the buffer its stop() returned
Stopped == Cardinality({d \in 1..Len(dispatch) : dispatch[d].capture = "stopped"}) = 1

\* the blocks that were pushed to that recorder
Recorded ==
  dispatch[CHOOSE d \in 1..Len(dispatch) : dispatch[d].capture = "stopped"].samples

\* the number of samples pushed, block by block
SampleCount ==
  LET RECURSIVE Sum(_)
      Sum(k) == IF k = 0 THEN 0 ELSE Len(Recorded[k]) + Sum(k - 1)
  IN Sum(Len(Recorded))

\* the k-th sample pushed (k from 0): block k \div 2, position k % 2
SampleAt(k) == Recorded[(k \div 2) + 1][(k % 2) + 1]

\* the line of its dispatch's plan that utterance u was made for
LineOf(u) == dispatch[utterances[u].d].lines[utterances[u].i + 1]

\* t is what is left of line after prefix p and the white space that follows it:
\* line = p, then white space only, then t, and t does not begin with white space
StrippedOnce(line, p, t) ==
  \E k \in 0..(Len(line) - Len(p)) :
    /\ SubSeq(line, 1, Len(p)) = p
    /\ \A j \in (Len(p) + 1)..(Len(p) + k) : line[j] \in WhiteSpace
    /\ t = SubSeq(line, Len(p) + k + 1, Len(line))
    /\ t = <<>> \/ Head(t) \notin WhiteSpace

\* the name holds "emma" in any mix of upper and lower case
NamesEmma(name) ==
  \E j \in 0..(Len(name) - 4) :
    /\ name[j + 1] \in {"e", "E"}
    /\ name[j + 2] \in {"m", "M"}
    /\ name[j + 3] \in {"m", "M"}
    /\ name[j + 4] \in {"a", "A"}

\* the language tag begins with "en"
TagIsEnglish(lang) == Len(lang) >= 2 /\ lang[1] = "e" /\ lang[2] = "n"

\* the least element of a non-empty set of indices
Least(S) == CHOOSE k \in S : \A j \in S : k <= j

\* str holds, somewhere, characters drawn in order from the sets of pat
HoldsPattern(str, pat) ==
  \E j \in 0..(Len(str) - Len(pat)) : \A m \in 1..Len(pat) : str[j + m] \in pat[m]

\* the words the code looks for, in any mix of upper and lower case
PatGoogle == <<{"g","G"}, {"o","O"}, {"o","O"}, {"g","G"}, {"l","L"}, {"e","E"}>>
PatMicrosoft == <<{"m","M"}, {"i","I"}, {"c","C"}, {"r","R"}, {"o","O"}, {"s","S"},
                  {"o","O"}, {"f","F"}, {"t","T"}>>
PatYaoyao == <<{"y","Y"}, {"a","A"}, {"o","O"}, {"y","Y"}, {"a","A"}, {"o","O"}>>
PatEdg == <<{"e","E"}, {"d","D"}, {"g","G"}>>
PatChrome == <<{"c","C"}, {"h","H"}, {"r","R"}, {"o","O"}, {"m","M"}, {"e","E"}>>

\* the vendor of a user agent
OnEdge(agent) == HoldsPattern(agent, PatEdg)
OnChrome(agent) == ~OnEdge(agent) /\ HoldsPattern(agent, PatChrome)

\* the language tag begins with "zh" / with "ja"
TagIsChinese(lang) == Len(lang) >= 2 /\ lang[1] = "z" /\ lang[2] = "h"
TagIsJapanese(lang) == Len(lang) >= 2 /\ lang[1] = "j" /\ lang[2] = "a"

\* a run of populateVoiceList builds a non-empty catalog in this step
CatalogBuilt == PopulateRuns /\ Len(voices) = 0 /\ Len(voices') > 0

\* the catalog indices of the voices whose language tag begins with lang
Candidates(lang) ==
  {k \in 1..Len(voices) :
     /\ Len(voices[k].lang) >= Len(lang)
     /\ \A m \in 1..Len(lang) : voices[k].lang[m] = lang[m]}

\* the selection a slot takes when its language becomes lang and there are
\* candidates: Emma among them if lang is "en" and there is one, else the first
PreferredFor(lang) ==
  LET emmas == {k \in Candidates(lang) : NamesEmma(voices[k].name)}
  IN IF lang = <<"e","n">> /\ emmas # {}
     THEN voices[Least(emmas)].voiceURI
     ELSE voices[Least(Candidates(lang))].voiceURI

\* the language rule shared by the three vendors' filters, but for English
KeepsChineseOrJapanese(lang) ==
  (TagIsChinese(lang) /\ lang # <<"z","h","-","H","K">>) \/ TagIsJapanese(lang)

\* what each vendor's catalog keeps
ChromeKeeps(v) ==
  /\ HoldsPattern(v.name, PatGoogle)
  /\ (KeepsChineseOrJapanese(v.lang) \/ TagIsEnglish(v.lang))

EdgeEnglish ==
  << <<"e","n","-","U","S">>, <<"e","n","-","A","U">>, <<"e","n","-","C","A">>,
     <<"e","n","-","N","Z">>, <<"e","n","-","G","B">> >>

EdgeKeeps(v) ==
  /\ HoldsPattern(v.name, PatMicrosoft)
  /\ (KeepsChineseOrJapanese(v.lang) \/ \E k \in 1..Len(EdgeEnglish) : v.lang = EdgeEnglish[k])

GenericKeeps(v) == KeepsChineseOrJapanese(v.lang) \/ TagIsEnglish(v.lang)

\* cat is the subsequence of host, in host order, of the entries Keep accepts
KeptInOrder(cat, host, Keep(_)) ==
  LET kept == {k \in 1..Len(host) : Keep(host[k])}
  IN /\ Len(cat) = Cardinality(kept)
     /\ \A j \in 1..Len(cat) :
          cat[j] = host[CHOOSE k \in kept : Cardinality({m \in kept : m < k}) = j - 1]

\* a run of populateVoiceList assigns the catalog in this step: the catalog was
\* empty and the host reports a voice
CatalogAssigned == PopulateRuns /\ Len(voices) = 0 /\ Len(hostVoices') > 0

\* the position of voice v in the host's list
HostIndex(host, v) == CHOOSE k \in 1..Len(host) : host[k] = v

\* Edge's order of languages: l1 comes strictly before l2
ComesBefore(l1, l2) ==
  LET english(l) == \E k \in 1..Len(EdgeEnglish) : l = EdgeEnglish[k]
      place(l) == CHOOSE k \in 1..Len(EdgeEnglish) : l = EdgeEnglish[k]
  IN \/ TagIsChinese(l1) /\ (TagIsEnglish(l2) \/ TagIsJapanese(l2))
     \/ TagIsEnglish(l1) /\ TagIsJapanese(l2)
     \/ english(l1) /\ english(l2) /\ place(l1) < place(l2)

\* the slot a line names: 2 for a line that begins with "Speaker 2:", else 1
SlotOf(line) ==
  IF Len(line) >= 10 /\ SubSeq(line, 1, 10) = <<"S","p","e","a","k","e","r"," ","2",":">>
  THEN 2 ELSE 1

\* a slot without a selection: null as constructed, or the undefined that
\* populateVoiceList assigns when no catalog entry is found
NoSelection == {Null, Undefined}

\* both selections resolve in the catalog
SelectionsResolve ==
  Resolves(voices, speaker1VoiceURI) /\ Resolves(voices, speaker2VoiceURI)

(***************************************************************************)
(* C1.  Utterances of one dispatch are serialized: whenever utterance i+1  *)
(* of a dispatch has been submitted to the engine, utterance i of the same *)
(* dispatch has already been signalled (end or error) by the engine, also  *)
(* when another dispatch was invoked in between.                           *)
(***************************************************************************)
C1_Serialized ==
  \A k \in 1..Len(utterances) :
    utterances[k].i > 0 =>
      \E j \in 1..(k - 1) :
        /\ utterances[j].d = utterances[k].d
        /\ utterances[j].i = utterances[k].i - 1
        /\ utterances[j].signal # "none"

\* dispatch 1 submitted its second line after dispatch 2 had been invoked and had
\* submitted a line of its own
C1_Witness ==
  \E j, k \in 1..Len(utterances) :
    /\ j < k
    /\ utterances[j].d = 2
    /\ utterances[k].d = 1
    /\ utterances[k].i = 1

(***************************************************************************)
(* C2.  A readAloud invoked on a non-empty text with a non-empty catalog   *)
(* whose selections resolve takes as its plan the non-blank lines of the   *)
(* text; when it ends, it has submitted exactly one utterance per line of  *)
(* the plan, in order, each signalled by onend, and the current-line       *)
(* indicator is null.                                                      *)
(***************************************************************************)
C2_PlanTaken ==
  (/\ Invoked
   /\ dispatch'[Len(dispatch')].mode = ReadAloud
   /\ ~TextIsEmpty(text) /\ Len(voices) > 0 /\ SelectionsResolve)
  => /\ dispatch'[Len(dispatch')].lines = PlanOf(text)
     /\ dispatch'[Len(dispatch')].pc \in {"utter", "done"}

C2_PlanSpoken ==
  \A d \in 1..Len(dispatch') :
    (/\ dispatch'[d].mode = ReadAloud
     /\ dispatch'[d].pc = "done"
     /\ (d > Len(dispatch) \/ dispatch[d].pc # "done"))
    => LET mine == UtterancesOf(utterances', d) IN
       /\ Len(mine) = Len(dispatch'[d].lines)
       /\ \A k \in 1..Len(mine) :
            /\ mine[k].i = k - 1
            /\ mine[k].text = UtterText(dispatch'[d].lines[k])
            /\ mine[k].signal = "end"
       /\ currentLineIndex' = NoLine

C2_ReadAloudVisitsPlan == [][C2_PlanTaken /\ C2_PlanSpoken]_vars

\* a readAloud over a text with a blank line between two lines has ended after
\* two utterances
C2_Witness ==
  \E d \in 1..Len(dispatch) :
    /\ dispatch[d].mode = ReadAloud
    /\ dispatch[d].pc = "done"
    /\ Len(dispatch[d].lines) = 2
    /\ Len(UtterancesOf(utterances, d)) = 2
    /\ currentLineIndex = NoLine

(***************************************************************************)
(* C3.  In readAloud an utterance-level error never leaves the dispatch    *)
(* suspended: no readAloud dispatch is still awaiting an utterance for     *)
(* which the engine has signalled an error.                                *)
(***************************************************************************)
C3_ErrorNeverSuspends ==
  \A d \in 1..Len(dispatch) :
    (dispatch[d].mode = ReadAloud /\ dispatch[d].pc = "utter")
    => utterances[dispatch[d].awaiting].signal # "error"


(***************************************************************************)
(* C4.  The branch `if (!voice)` of either loop is taken only when the     *)
(* selection the line refers to does not resolve in the catalog.  Both     *)
(* loops run only with a non-empty catalog, and with a non-empty catalog   *)
(* both selections resolve in every reachable state, so the branch is      *)
(* never taken.                                                            *)
(***************************************************************************)
SelectionsAlwaysResolve == Len(voices) > 0 => SelectionsResolve

NoVoiceNeverReached == \A d \in 1..Len(dispatch) : dispatch[d].pc # "novoice"

(***************************************************************************)
(* C5 as stated.  A dispatch invoked when the text is empty, or has only   *)
(* blank lines, or when the catalog is empty, sets the missing-input text, *)
(* submits no utterance and requests no capture.                           *)
(***************************************************************************)
C5_BlankTextIsMissingInput ==
  [][(Invoked /\ (TextIsEmpty(text) \/ PlanOf(text) = <<>> \/ Len(voices) = 0))
     => /\ errorMessage' = MsgMissingInput
        /\ utterances' = utterances
        /\ dispatch'[Len(dispatch')].capture = "none"]_vars

(***************************************************************************)
(* C5 as amended.  A dispatch invoked when the text is the empty string,   *)
(* or when the catalog is empty, sets the missing-input text and returns:  *)
(* it submits no utterance, then or later, and requests no capture.        *)
(***************************************************************************)
C5_MissingInput ==
  [][/\ (Invoked /\ (TextIsEmpty(text) \/ Len(voices) = 0))
        => /\ errorMessage' = MsgMissingInput
           /\ utterances' = utterances
           /\ dispatch'[Len(dispatch')].pc = "missing"
           /\ dispatch'[Len(dispatch')].capture = "none"
     /\ \A d \in 1..Len(dispatch) :
          dispatch[d].pc = "missing"
          => /\ dispatch'[d] = dispatch[d]
             /\ UtterancesOf(utterances', d) = <<>>]_vars

\* both buttons were pressed on a text that is not empty while the catalog was
\* empty
C5_Witness ==
  /\ Len(dispatch) = 2
  /\ dispatch[1].mode # dispatch[2].mode
  /\ dispatch[1].pc = "missing" /\ dispatch[2].pc = "missing"
  /\ ~TextIsEmpty(text)
  /\ Len(voices) = 0

(***************************************************************************)
(* C6.  In speak, every utterance of the dispatch is submitted with the    *)
(* capture granted; when the grant is refused the capture-failed text is   *)
(* set and the dispatch never submits an utterance.                        *)
(***************************************************************************)
C6_GrantBeforeSpeech ==
  [][/\ \A k \in 1..Len(utterances') :
          dispatch'[utterances'[k].d].mode = Speak
          => dispatch'[utterances'[k].d].capture \in {"active", "stopped"}
     /\ \A d \in 1..Len(dispatch) :
          (dispatch[d].pc = "grant" /\ dispatch'[d].pc = "denied")
          => errorMessage' = MsgCaptureFailed
     /\ \A d \in 1..Len(dispatch') :
          dispatch'[d].pc = "denied" => UtterancesOf(utterances', d) = <<>>]_vars

\* one speak was refused the capture, another was granted it and has spoken
C6_Witness ==
  \E d1, d2 \in 1..Len(dispatch) :
    /\ dispatch[d1].pc = "denied"
    /\ dispatch[d2].mode = Speak
    /\ UtterancesOf(utterances, d2) # <<>>

(***************************************************************************)
(* C7.  Every capture a speak was granted is stopped exactly once: never   *)
(* twice, and once the dispatch has ended (all lines spoken, a voice       *)
(* unresolved, an utterance error) recorder.stop() has been called.        *)
(***************************************************************************)
C7_StoppedExactlyOnce ==
  \A d \in 1..Len(dispatch) :
    dispatch[d].mode = Speak
    => /\ dispatch[d].stops <= 1
       /\ dispatch[d].pc \in {"done", "novoice", "rejected"}
          => dispatch[d].stops = 1

(***************************************************************************)
(* C8.  No readAloud or speak ends with a rejected promise.                *)
(***************************************************************************)
C8_NeverRejected ==
  \A d \in 1..Len(dispatch) : dispatch[d].pc # "rejected"

(***************************************************************************)
(* C9.  The signal delivered for an utterance that a later dispatch        *)
(* cancelled changes neither the status text nor the state of any later    *)
(* dispatch.                                                               *)
(***************************************************************************)
C9_CancelledSignalIsolated ==
  [][\A u \in cancelled :
       (u \notin cancelled' /\ utterances[u].d < Len(dispatch))
       => /\ errorMessage' = errorMessage
          /\ \A d \in (utterances[u].d + 1)..Len(dispatch) :
               dispatch'[d] = dispatch[d]]_vars

(***************************************************************************)
(* C10.  A run of populateVoiceList that follows another with the host's   *)
(* list unchanged, and any run with a non-empty catalog whatever the host  *)
(* reports, leaves the catalog and both selections as they were.           *)
(***************************************************************************)
C10_PopulateIdempotent ==
  [][(/\ HostVoicesChanged(hostVoices')
      /\ onvoiceschanged
      /\ (hostVoices' = hostVoices /\ calls >= 1) \/ Len(voices) > 0)
     => /\ voices' = voices
        /\ speaker1VoiceURI' = speaker1VoiceURI
        /\ speaker2VoiceURI' = speaker2VoiceURI]_vars

\* populateVoiceList has run again on an unchanged host list, with slot 1 on a
\* voice the user chose
C10_Witness ==
  /\ onvoiceschanged
  /\ calls = 2
  /\ Len(voices) > 1
  /\ speaker1VoiceURI # DefaultSpeaker1(voices)

(***************************************************************************)
(* C11 as stated.  After any run of populateVoiceList, the catalog is      *)
(* non-empty or the unsupported-environment text is set.                   *)
(***************************************************************************)
C11_NonEmptyOrUnsupported ==
  [][PopulateRuns => (Len(voices') > 0 \/ errorMessage' = MsgUnsupported)]_vars

(***************************************************************************)
(* C12.  In every reachable state each slot's selection is absent (null or *)
(* undefined) or is the voiceURI of an entry of the catalog.               *)
(***************************************************************************)
C12_SelectionsInCatalog ==
  /\ speaker1VoiceURI \in NoSelection \/ Resolves(voices, speaker1VoiceURI)
  /\ speaker2VoiceURI \in NoSelection \/ Resolves(voices, speaker2VoiceURI)

\* the voices arrived with a change notification, the user then changed slot 1's
\* language and picked a voice other than the default in slot 2
C12_Witness ==
  /\ onvoiceschanged
  /\ Len(voices) > 1
  /\ speaker1Lang # En
  /\ Resolves(voices, speaker1VoiceURI)
  /\ speaker2VoiceURI # DefaultSpeaker2(ua, voices)
  /\ Resolves(voices, speaker2VoiceURI)

(***************************************************************************)
(* C13 as stated.  A run of populateVoiceList while the host reports no    *)
(* voice sets the unsupported-environment text and leaves the catalog      *)
(* empty and both selections as they were; the text then stays until the   *)
(* host signals a change of its voice list.                                *)
(***************************************************************************)
C13_UnsupportedPersists ==
  [][/\ (PopulateRuns /\ Len(hostVoices') = 0)
        => /\ errorMessage' = MsgUnsupported
           /\ voices' = <<>>
           /\ speaker1VoiceURI' = speaker1VoiceURI
           /\ speaker2VoiceURI' = speaker2VoiceURI
     /\ (errorMessage = MsgUnsupported /\ ~HostSignals)
        => errorMessage' = MsgUnsupported]_vars

(***************************************************************************)
(* C14 as stated.  After every change notification the catalog is the      *)
(* vendor's filter applied to what the host reports then.                  *)
(***************************************************************************)
C14_RebuiltOnEveryChange ==
  [][HostSignals => voices' = FilteredCatalog(ua, hostVoices')]_vars

(***************************************************************************)
(* C14, amended.  A change notification rebuilds the catalog only when the *)
(* handler is registered, the catalog is empty and the host reports a      *)
(* voice: the catalog then holds exactly the host voices the vendor's      *)
(* filter accepts, each once.  Any other notification leaves the catalog   *)
(* as it was.                                                              *)
(***************************************************************************)
C14_RebuiltWhileEmpty ==
  [][HostSignals =>
       IF onvoiceschanged /\ Len(voices) = 0 /\ Len(hostVoices') > 0
       THEN /\ Entries(voices') = {v \in Entries(hostVoices') : Accepts(ua, v)}
            /\ Len(voices') = Cardinality(Entries(voices'))
       ELSE voices' = voices]_vars

\* the catalog was built on a notification, dropped a host voice, and a later
\* notification with another list left it as it was
C14_Witness ==
  /\ onvoiceschanged
  /\ Len(voices) > 0
  /\ \E v \in Entries(voices) : v \notin Entries(hostVoices)
  /\ \E v \in Entries(hostVoices) : Accepts(ua, v) /\ v \notin Entries(voices)

(***************************************************************************)
(* C15.  The buffer stop() returns for N samples at rate R has 44 + 2N     *)
(* bytes; its field at offset 40 is 2N, at offset 4 is 36 + 2N, at offset  *)
(* 24 is R and at offset 28 is 2R; the declared data size is the number of *)
(* bytes that follow the header.                                           *)
(***************************************************************************)
C15_WavHeaderSizes ==
  Stopped =>
    /\ Len(wav) = 44 + 2 * SampleCount
    /\ Uint32At(wav, 40) = 2 * SampleCount
    /\ Uint32At(wav, 4) = 36 + 2 * SampleCount
    /\ Uint32At(wav, 24) = sampleRate
    /\ Uint32At(wav, 28) = 2 * sampleRate
    /\ Uint32At(wav, 40) = Len(wav) - 44
    /\ Uint32At(wav, 4) = Len(wav) - 8

\* two blocks were pushed before stop
C15_Witness == Stopped /\ Len(Recorded) = 2 /\ SampleCount = 4

(***************************************************************************)
(* C16.  The k-th 16-bit value of the data section is the conversion of    *)
(* the k-th sample pushed: -32768 for a sample of -1 or less, 32767 for a  *)
(* sample of 1 or more, 0 for 0, and between them the sample times 32768   *)
(* (negative) or 32767 (positive) with its fraction dropped.               *)
(***************************************************************************)
C16_SamplesConverted ==
  Stopped =>
    \A k \in 0..(SampleCount - 1) :
      LET x == SampleAt(k)
          v == Int16At(wav, 44 + 2 * k)
      IN /\ x <= -SampleUnit => v = -32768
         /\ x >= SampleUnit => v = 32767
         /\ x = 0 => v = 0
         /\ (-SampleUnit < x /\ x < 0)
              => (x * 32768 <= v * SampleUnit /\ v * SampleUnit < x * 32768 + SampleUnit)
         /\ (0 < x /\ x < SampleUnit)
              => (v * SampleUnit <= x * 32767 /\ x * 32767 < (v + 1) * SampleUnit)

\* a sample above 1 in the first block, one below -1 and a fraction in the second
C16_Witness ==
  /\ Stopped
  /\ SampleCount = 4
  /\ SampleAt(1) > SampleUnit
  /\ SampleAt(2) < -SampleUnit
  /\ SampleAt(3) = 1

(***************************************************************************)
(* C17.  The text of every utterance made for a line that starts with      *)
(* "Speaker 1:" or "Speaker 2:" is that line without the prefix and the    *)
(* white space right after it, everything behind kept as it is.            *)
(***************************************************************************)
C17_PrefixStrippedOnce ==
  \A u \in 1..Len(utterances) :
    /\ StartsWith(LineOf(u), Speaker1Prefix)
         => StrippedOnce(LineOf(u), Speaker1Prefix, utterances[u].text)
    /\ StartsWith(LineOf(u), Speaker2Prefix)
         => StrippedOnce(LineOf(u), Speaker2Prefix, utterances[u].text)

\* an utterance for "Speaker 1:" + space + tab + "a Speaker 1:b"
C17_Witness ==
  \E u \in 1..Len(utterances) :
    /\ LineOf(u) = Speaker1Prefix \o <<" ", "\t">> \o <<"a"," ">> \o Speaker1Prefix \o <<"b">>
    /\ utterances[u].text = <<"a"," ">> \o Speaker1Prefix \o <<"b">>

(***************************************************************************)
(* C18.  Every utterance is made for a line that is not blank, with the    *)
(* voice slot 2 selects at that moment if the line starts with             *)
(* "Speaker 2:" and the voice slot 1 selects otherwise, a catalog entry in *)
(* both cases; a line with neither prefix is submitted as it is.  A        *)
(* dispatch that has finished has submitted one utterance per line of its  *)
(* plan, in order.                                                         *)
(***************************************************************************)
C18_VoiceBySlot ==
  [][/\ \A u \in (Len(utterances) + 1)..Len(utterances') :
          LET line == dispatch'[utterances'[u].d].lines[utterances'[u].i + 1]
              is1 == /\ Len(line) >= Len(Speaker1Prefix)
                     /\ SubSeq(line, 1, Len(Speaker1Prefix)) = Speaker1Prefix
              is2 == /\ Len(line) >= Len(Speaker2Prefix)
                     /\ SubSeq(line, 1, Len(Speaker2Prefix)) = Speaker2Prefix
              slot == IF is2 THEN speaker2VoiceURI ELSE speaker1VoiceURI
          IN /\ \E k \in 1..Len(line) : line[k] \notin WhiteSpace
             /\ utterances'[u].voice = slot
             /\ Resolves(voices, slot)
             /\ (~is1 /\ ~is2) => utterances'[u].text = line
     /\ \A d \in 1..Len(dispatch') :
          dispatch'[d].pc = "done"
            => LET us == UtterancesOf(utterances', d)
               IN /\ Len(us) = Len(dispatch'[d].lines)
                  /\ \A k \in 1..Len(us) : us[k].i = k - 1]_vars

\* "Speaker 1:Hello", "Speaker 2:X", blank: a finished dispatch with exactly two
\* utterances, the first with slot 1's voice and the second with slot 2's
C18_Witness ==
  /\ text = TextDialogue
  /\ speaker1VoiceURI # speaker2VoiceURI
  /\ \E d \in 1..Len(dispatch) :
       /\ dispatch[d].pc = "done"
       /\ dispatch[d].lines = SubSeq(TextDialogue, 1, 2)
       /\ Len(UtterancesOf(utterances, d)) = 2
       /\ UtterancesOf(utterances, d)[1].voice = speaker1VoiceURI
       /\ UtterancesOf(utterances, d)[1].text = <<"H","e","l","l","o">>
       /\ UtterancesOf(utterances, d)[2].voice = speaker2VoiceURI
       /\ UtterancesOf(utterances, d)[2].text = <<"X">>

(***************************************************************************)
(* C19 as stated.  A record-mode dispatch has triggered its download only  *)
(* with its recorder stopped and every line of its plan ended; and once    *)
(* the engine has signalled an outcome for every utterance the dispatch    *)
(* submitted, its capture is no longer active.                             *)
(***************************************************************************)
C19_DownloadLastThenIdle ==
  \A d \in 1..Len(dispatch) :
    dispatch[d].mode = Speak =>
      LET us == UtterancesOf(utterances, d)
      IN /\ dispatch[d].downloads > 0
              => /\ dispatch[d].capture = "stopped"
                 /\ Len(us) = Len(dispatch[d].lines)
                 /\ \A k \in 1..Len(us) : us[k].signal = "end"
         /\ (dispatch[d].capture = "active")
              => \E k \in 1..Len(us) : us[k].signal = "none"

(***************************************************************************)
(* C20.  When a run of populateVoiceList has built a non-empty catalog,    *)
(* slot 1 selects the first catalog voice whose name holds "emma" in any   *)
(* case, else the first whose language begins with "en", else the first    *)
(* entry, whatever the vendor.                                             *)
(***************************************************************************)
C20_Slot1Default ==
  [][(PopulateRuns /\ Len(voices) = 0 /\ Len(voices') > 0) =>
       LET emmas == {k \in 1..Len(voices') : NamesEmma(voices'[k].name)}
           english == {k \in 1..Len(voices') : TagIsEnglish(voices'[k].lang)}
       IN speaker1VoiceURI' =
            IF emmas # {} THEN voices'[Least(emmas)].voiceURI
            ELSE IF english # {} THEN voices'[Least(english)].voiceURI
            ELSE voices'[1].voiceURI]_vars

\* populateVoiceList has just built a catalog in which Emma comes second, behind
\* another English voice, and slot 1 selects Emma
C20_Witness ==
  /\ calls = 1
  /\ Len(voices) = 2
  /\ TagIsEnglish(voices[1].lang)
  /\ ~NamesEmma(voices[1].name)
  /\ NamesEmma(voices[2].name)
  /\ speaker1VoiceURI = voices[2].voiceURI
  /\ speaker1Lang = En

(***************************************************************************)
(* C21.  When a run of populateVoiceList has built a non-empty catalog,    *)
(* slot 2 selects, on Edge, the first catalog voice whose name holds       *)
(* "yaoyao" in any case, and on Chrome and other hosts the first whose     *)
(* language is exactly "zh-TW"; failing that the first whose language      *)
(* begins with "zh", else the first entry.                                 *)
(***************************************************************************)
C21_Slot2Default ==
  [][CatalogBuilt =>
       LET preferred ==
             IF OnEdge(ua)
             THEN {k \in 1..Len(voices') : HoldsPattern(voices'[k].name, PatYaoyao)}
             ELSE {k \in 1..Len(voices') : voices'[k].lang = <<"z","h","-","T","W">>}
           chinese == {k \in 1..Len(voices') : TagIsChinese(voices'[k].lang)}
       IN speaker2VoiceURI' =
            IF preferred # {} THEN voices'[Least(preferred)].voiceURI
            ELSE IF chinese # {} THEN voices'[Least(chinese)].voiceURI
            ELSE voices'[1].voiceURI]_vars

\* on Edge, Yaoyao comes behind a zh-TW voice in the catalog and slot 2 selects
\* Yaoyao
C21_Witness ==
  /\ OnEdge(ua)
  /\ mounted
  /\ Len(voices) >= 2
  /\ voices[1].lang = <<"z","h","-","T","W">>
  /\ HoldsPattern(voices[2].name, PatYaoyao)
  /\ speaker2VoiceURI = voices[2].voiceURI

(***************************************************************************)
(* C22.  When a slot's language changes to a language some catalog voice   *)
(* has, the slot selects Emma among those voices if the language is "en"   *)
(* and there is one, else the first of them; the other slot keeps its      *)
(* selection.  The rule is the same for both slots.                        *)
(***************************************************************************)
C22_LanguageChangeSelects ==
  [][/\ (speaker1Lang' # speaker1Lang /\ Candidates(speaker1Lang') # {})
        => /\ speaker1VoiceURI' = PreferredFor(speaker1Lang')
           /\ speaker2VoiceURI' = speaker2VoiceURI
     /\ (speaker2Lang' # speaker2Lang /\ Candidates(speaker2Lang') # {})
        => /\ speaker2VoiceURI' = PreferredFor(speaker2Lang')
           /\ speaker1VoiceURI' = speaker1VoiceURI]_vars

\* slot 2 was switched to "en" and selects Emma, the second English voice of
\* the catalog
C22_Witness ==
  /\ speaker2Lang = En
  /\ Len(voices) = 2
  /\ TagIsEnglish(voices[1].lang)
  /\ ~NamesEmma(voices[1].name)
  /\ NamesEmma(voices[2].name)
  /\ speaker2VoiceURI = voices[2].voiceURI

(***************************************************************************)
(* C23.  When a slot's language changes to a language no catalog voice     *)
(* has, the empty catalog included, both selections, the catalog and the   *)
(* error text stay as they were.                                           *)
(***************************************************************************)
C23_LanguageChangeWithoutCandidates ==
  [][(\/ speaker1Lang' # speaker1Lang /\ Candidates(speaker1Lang') = {}
      \/ speaker2Lang' # speaker2Lang /\ Candidates(speaker2Lang') = {})
     => /\ speaker1VoiceURI' = speaker1VoiceURI
        /\ speaker2VoiceURI' = speaker2VoiceURI
        /\ voices' = voices
        /\ errorMessage' = errorMessage]_vars

\* slot 1 was switched to "ja" with a catalog that has no Japanese voice and
\* still selects an English one
C23_Witness ==
  /\ speaker1Lang = Ja
  /\ Len(voices) > 0
  /\ Candidates(Ja) = {}
  /\ \E k \in Candidates(En) : speaker1VoiceURI = voices[k].voiceURI

(***************************************************************************)
(* C24.  On Chrome the catalog assigned is the host's voices, in the       *)
(* host's order, whose name holds "google" in any case and whose language  *)
(* begins with "zh" without being "zh-HK", or begins with "ja" or "en".    *)
(***************************************************************************)
C24_ChromeCatalog ==
  [][(CatalogAssigned /\ OnChrome(ua))
     => KeptInOrder(voices', hostVoices', ChromeKeeps)]_vars

\* on Chrome, of three host voices the second one is dropped although its name
\* holds "google"
C24_Witness ==
  /\ OnChrome(ua)
  /\ mounted
  /\ Len(hostVoices) = 3
  /\ HoldsPattern(hostVoices[2].name, PatGoogle)
  /\ voices = <<hostVoices[1], hostVoices[3]>>

(***************************************************************************)
(* C25.  On Edge the catalog assigned holds exactly the host's voices      *)
(* whose name holds "microsoft" in any case and whose language begins with *)
(* "zh" without being "zh-HK", or begins with "ja", or is one of en-US,    *)
(* en-GB, en-AU, en-CA, en-NZ; each of them once.                          *)
(***************************************************************************)
C25_EdgeCatalog ==
  [][(CatalogAssigned /\ OnEdge(ua))
     => /\ Entries(voices') = {v \in Entries(hostVoices') : EdgeKeeps(v)}
        /\ Len(voices') = Cardinality(Entries(voices'))]_vars

\* on Edge the host has a Microsoft en-IN voice and the catalog has the two other
\* host voices
C25_Witness ==
  /\ OnEdge(ua)
  /\ mounted
  /\ Len(hostVoices) = 3
  /\ \E k \in 1..3 : /\ hostVoices[k].lang = <<"e","n","-","I","N">>
                       /\ HoldsPattern(hostVoices[k].name, PatMicrosoft)
  /\ Len(voices) = 2

(***************************************************************************)
(* C26.  On Edge no catalog voice stands behind a voice whose language     *)
(* comes after its own in the order zh, en-US, en-AU, en-CA, en-NZ, en-GB, *)
(* ja; two voices neither of which comes before the other stand as in the  *)
(* host's list.                                                            *)
(***************************************************************************)
C26_EdgeOrder ==
  [][(CatalogAssigned /\ OnEdge(ua))
     => \A a, b \in 1..Len(voices') :
          a < b =>
            /\ ~ComesBefore(voices'[b].lang, voices'[a].lang)
            /\ ~ComesBefore(voices'[a].lang, voices'[b].lang)
                 => HostIndex(hostVoices', voices'[a]) < HostIndex(hostVoices', voices'[b])]_vars

\* on Edge the host's first voice, a Japanese one, stands last in the catalog
\* behind two Chinese voices that kept their order
C26_Witness ==
  /\ OnEdge(ua)
  /\ mounted
  /\ Len(hostVoices) = 3
  /\ TagIsJapanese(hostVoices[1].lang)
  /\ TagIsChinese(hostVoices[2].lang)
  /\ TagIsChinese(hostVoices[3].lang)
  /\ voices = <<hostVoices[2], hostVoices[3], hostVoices[1]>>

(***************************************************************************)
(* C27.  Every user agent falls in one branch: Edge if it holds "edg" in   *)
(* any case, Chrome if it holds "chrome" and not "edg", the generic one    *)
(* otherwise.  The catalog assigned holds what that vendor keeps; on the   *)
(* generic branch it is the host's voices, in the host's order, whose      *)
(* language begins with "zh" without being "zh-HK", or with "ja" or "en".  *)
(***************************************************************************)
C27_VendorBranch ==
  [][CatalogAssigned =>
       IF OnEdge(ua)
       THEN Entries(voices') = {v \in Entries(hostVoices') : EdgeKeeps(v)}
       ELSE IF OnChrome(ua)
       THEN Entries(voices') = {v \in Entries(hostVoices') : ChromeKeeps(v)}
       ELSE KeptInOrder(voices', hostVoices', GenericKeeps)]_vars

\* on another browser, of three host voices the second is dropped and a kept one
\* is neither a Google nor a Microsoft voice
C27_Witness ==
  /\ ~OnEdge(ua)
  /\ ~OnChrome(ua)
  /\ mounted
  /\ Len(hostVoices) = 3
  /\ voices = <<hostVoices[1], hostVoices[3]>>
  /\ \E k \in 1..2 : /\ ~HoldsPattern(voices[k].name, PatGoogle)
                       /\ ~HoldsPattern(voices[k].name, PatMicrosoft)

(***************************************************************************)
(* C29 as stated.  While the utterance the latest dispatch awaits, of      *)
(* either mode, is in the engine's queue without a signal, the             *)
(* current-line indicator is the index of its line; and the indicator      *)
(* shows a line only if it is the line the latest dispatch awaits.         *)
(***************************************************************************)
C29_IndicatorAtPendingLine ==
  LET latest == Len(dispatch)
      inLoop == /\ latest > 0
                /\ dispatch[latest].pc = "utter"
                /\ utterances[dispatch[latest].awaiting].signal = "none"
                /\ dispatch[latest].awaiting \notin cancelled
  IN /\ inLoop => currentLineIndex = dispatch[latest].i
     /\ currentLineIndex # NoLine
          => inLoop /\ currentLineIndex = dispatch[latest].i

(***************************************************************************)
(* C30 as stated.  A dispatch that completes with an empty plan, its text  *)
(* being non-empty and all blank lines, has submitted no utterance, sets   *)
(* no error text, and leaves the current-line indicator null.              *)
(***************************************************************************)
C30_EmptyPlanIsNoOp ==
  [][\A d \in 1..Len(dispatch') :
       (/\ dispatch'[d].pc = "done"
        /\ dispatch'[d].lines = <<>>
        /\ (d > Len(dispatch) \/ dispatch[d].pc # "done"))
       => /\ UtterancesOf(utterances', d) = <<>>
          /\ errorMessage' \notin {MsgMissingInput, MsgCaptureFailed, MsgNoVoiceSpeak,
                                    MsgNoVoiceRead, MsgSpeakError, MsgSynthError,
                                    MsgUnsupported}
          /\ currentLineIndex' = NoLine]_vars

(***************************************************************************)
(* C31 as stated.  Once a new dispatch has been invoked, no earlier        *)
(* dispatch submits a line: every utterance handed to the engine belongs   *)
(* to the dispatch invoked last.                                           *)
(***************************************************************************)
C31_OnlyLatestSubmits ==
  [][Len(utterances') > Len(utterances)
     => utterances'[Len(utterances')].d = Len(dispatch')]_vars

(***************************************************************************)
(* C33 as stated.  When a record-mode dispatch goes on after the capture   *)
(* grant, the text is one that passes the missing-input check: speak does  *)
(* not record and download for a text emptied while the prompt was open.   *)
(***************************************************************************)
C33_GrantedTextPassesCheck ==
  [][\A d \in 1..Len(dispatch) :
       (dispatch[d].pc = "grant" /\ dispatch'[d].pc \notin {"grant", "denied"})
       => ~TextIsEmpty(text)]_vars

(***************************************************************************)
(* C34 as stated.  At most one capture is requested or active at any time. *)
(***************************************************************************)
C34_OneCapture ==
  Cardinality({d \in 1..Len(dispatch) :
                 dispatch[d].capture \in {"requested", "active"}}) <= 1

(***************************************************************************)
(* C32 as stated.  Two lines of one dispatch that name the same slot are   *)
(* spoken with the same voice, whatever the user changes while the         *)
(* dispatch is in progress.                                                *)
(***************************************************************************)
C32_OneVoicePerSlot ==
  \A j, k \in 1..Len(utterances) :
    (/\ utterances[j].d = utterances[k].d
     /\ SlotOf(LineOf(j)) = SlotOf(LineOf(k)))
    => utterances[j].voice = utterances[k].voice

====
